---------------------------- MODULE Spec2Model ----------------------------
(***************************************************************************)
(* A model of src/app.py: the semiconductor production dashboard.          *)
(*                                                                         *)
(*   process_data  the reshaping routine (group sums, concat, pivot with   *)
(*                 aggfunc='first', sort by sort_order), as operators;     *)
(*   main          one render pass, one action per step of the try block,  *)
(*                 the except handler and the finally block.               *)
(*                                                                         *)
(* Strings of the source that are not ASCII are written in ASCII here:     *)
(*   "12inch" is '12인치', "8inch" is '8인치', "ALL" is '전체',            *)
(*   "actual" / "predicted" as chart labels are '실제' / '예측'.           *)
(* A month is the number of the month in the queried year; an amount is a  *)
(* natural number.                                                         *)
(***************************************************************************)
EXTENDS Integers, Sequences, FiniteSets

\* ------------------------------------------------------------------ bounds

\* Longest input handed to process_data in the reshaping specification.
MaxRows == 3

\* Most rows one query returns in a render pass.
MaxQueryRows == 1

Inches == {"12inch", "8inch"}
Lines == {"L1", "L2"}
Nodes == {"N1", "N2"}
Months == {1, 2}
Amounts == {1, 2}

\* ------------------------------------------------------------ value orders

\* The order of Python's str comparison (code points) on the strings used:
\* digits before letters, and '전체' (U+C804 ...) after every ASCII string.
StrRank(s) ==
    CASE s = "12inch" -> 1
      [] s = "6inch"  -> 2
      [] s = "8inch"  -> 3
      [] s = "L1"     -> 4
      [] s = "L2"     -> 5
      [] s = "N1"     -> 6
      [] s = "N2"     -> 7
      [] s = "ALL"    -> 8

Range(seq) == {seq[i] : i \in 1..Len(seq)}

\* The elements of S as a sequence in increasing order of f (f is injective
\* on S wherever this is used).
RECURSIVE SortSet(_, _)
SortSet(S, f) ==
    IF S = {} THEN <<>>
    ELSE LET x == CHOOSE x \in S : \A y \in S : f[x] <= f[y]
         IN  <<x>> \o SortSet(S \ {x}, f)

\* All orders in which the elements of S can be listed.
RECURSIVE Perms(_)
Perms(S) ==
    IF S = {} THEN {<<>>}
    ELSE UNION {{<<x>> \o p : p \in Perms(S \ {x})} : x \in S}

\* ------------------------------------------------------ get_production_data

\* The rows the SELECT can return: one record per table row.
\* A row whose inch is neither '12인치' nor '8인치'.
UnrankedRecord ==
    [inch |-> "6inch", line |-> "L1", nano |-> "N1", month |-> 1,
     production_amount |-> 1]

Records ==
    [inch : Inches, line : Lines, nano : Nodes, month : Months,
     production_amount : Amounts] \cup {UnrankedRecord}

\* ORDER BY inch, line, nano, month.
OrderKey(r) ==
    ((StrRank(r.inch) * 10 + StrRank(r.line)) * 10 + StrRank(r.nano)) * 100
        + r.month

\* The result lists of at most n rows over R that respect the ORDER BY (rows
\* equal on the four ORDER BY columns come in any order).
RECURSIVE OrderedSeqs(_, _)
OrderedSeqs(R, n) ==
    IF n = 0 THEN {<<>>}
    ELSE LET prev == OrderedSeqs(R, n - 1)
             ext  == {p \in (prev \X R) :
                        /\ Len(p[1]) = n - 1
                        /\ \/ n = 1
                           \/ OrderKey(p[1][n - 1]) <= OrderKey(p[2])}
         IN  prev \cup {Append(p[1], p[2]) : p \in ext}

\* -------------------------------------------------------------- process_data

\* Mutant of GroupAmount: the amount of the group's first row (a 'first'
\* aggregation where the code sums).
RECURSIVE GroupAmount_first(_, _, _)
GroupAmount_first(df, k, i) ==
    IF i > Len(df) THEN 0
    ELSE IF <<df[i].inch, df[i].line, df[i].month>> = k
            THEN df[i].production_amount
            ELSE GroupAmount_first(df, k, i + 1)

\* Sum of production_amount over the rows of df in group k = <<inch, line, month>>.
RECURSIVE GroupAmount(_, _, _)
GroupAmount(df, k, i) ==
    IF i > Len(df) THEN 0
    ELSE (IF <<df[i].inch, df[i].line, df[i].month>> = k
             THEN df[i].production_amount ELSE 0)
         + GroupAmount(df, k, i + 1)

\* df.groupby(['inch','line','month'])['production_amount'].sum().reset_index()
\* followed by  total['nano'] = '전체': one row per group, in group-key order.
GroupTotals(df) ==
    LET keys == {<<r.inch, r.line, r.month>> : r \in Range(df)}
        code == [k \in keys |->
                    (StrRank(k[1]) * 10 + StrRank(k[2])) * 100 + k[3]]
        row(k) == [inch |-> k[1], line |-> k[2], nano |-> "ALL", month |-> k[3],
                   production_amount |-> GroupAmount(df, k, 1)]
        sorted == SortSet(keys, code)
    IN  [i \in 1..Len(sorted) |-> row(sorted[i])]

total_by_inch(df) == GroupTotals(df)

total_by_line(df) == GroupTotals(df)

\* Mutant of result_df: the totals are left out of the concat.
result_df_rows_only(df) == df

\* pd.concat([total_by_inch, total_by_line, df])
result_df(df) == total_by_inch(df) \o total_by_line(df) \o df

\* aggfunc='first': the value of the first row of rdf with this index and month.
First(rdf, idx, m) ==
    LET hits == {i \in 1..Len(rdf) :
                    /\ <<rdf[i].inch, rdf[i].line, rdf[i].nano>> = idx
                    /\ rdf[i].month = m}
        i0 == CHOOSE i \in hits : \A j \in hits : i <= j
    IN  rdf[i0].production_amount

\* One row of the pivot: the index and the months that have a value (a month
\* outside DOMAIN amounts is NaN in that row).
PivotRow(rdf, idx) ==
    LET ms == {rdf[i].month : i \in {j \in 1..Len(rdf) :
                    <<rdf[j].inch, rdf[j].line, rdf[j].nano>> = idx}}
    IN  [inch |-> idx[1], line |-> idx[2], nano |-> idx[3],
         amounts |-> [m \in ms |-> First(rdf, idx, m)]]

\* result_df.pivot_table(index=['inch','line','nano'], columns='month',
\*     values='production_amount', aggfunc='first').reset_index():
\* a frame is its month columns and its rows, the rows in index order.
pivot_table(rdf) ==
    LET idxs == {<<r.inch, r.line, r.nano>> : r \in Range(rdf)}
        code == [k \in idxs |->
                    (StrRank(k[1]) * 10 + StrRank(k[2])) * 10 + StrRank(k[3])]
        sorted == SortSet(idxs, code)
    IN  [columns |-> {r.month : r \in Range(rdf)},
         rows |-> [i \in 1..Len(sorted) |-> PivotRow(rdf, sorted[i])]]

\* pivot_df['inch'].map({'12인치': 0, '8인치': 1}): NaN for any other value.
InchMapped(inch) == inch \in {"12inch", "8inch"}

InchMap(inch) == IF inch = "12inch" THEN 0 ELSE 1

\* pivot_df['nano'].map({'전체': 0}).fillna(1)
NanoMap(nano) == IF nano = "ALL" THEN 0 ELSE 1

\* Mutant of sort_order: the nano term is left out.
sort_order_inch_only(row) == InchMap(row.inch) * 1000

\* sort_order of a row whose inch is mapped (it is NaN otherwise).
sort_order(row) == InchMap(row.inch) * 1000 + NanoMap(row.nano) * 100

\* The listings of rows (a set of rows with a number as sort_order) in
\* nondecreasing sort_order: rows of equal sort_order in every order.
RECURSIVE TieOrders(_)
TieOrders(rows) ==
    IF rows = {} THEN {<<>>}
    ELSE LET lo == CHOOSE k \in {sort_order(r) : r \in rows} :
                        \A r \in rows : k <= sort_order(r)
             grp == {r \in rows : sort_order(r) = lo}
         IN  {p \o q : p \in Perms(grp), q \in TieOrders(rows \ grp)}

\* The rows of a sequence that satisfy keep(_), in the order of the sequence.
RECURSIVE SelectRows(_, _, _)
SelectRows(rows, keep, i) ==
    IF i > Len(rows) THEN <<>>
    ELSE (IF keep[rows[i]] THEN <<rows[i]>> ELSE <<>>)
         \o SelectRows(rows, keep, i + 1)

\* pivot_df.sort_values('sort_order'): kind defaults to 'quicksort', which
\* pandas documents as not stable, so rows of equal sort_order may come out in
\* any order; rows with a NaN sort_order go last (na_position='last'), in the
\* order they had.
sort_values(rows) ==
    LET num == {r \in Range(rows) : InchMapped(r.inch)}
        nan == SelectRows(rows, [r \in Range(rows) |-> ~InchMapped(r.inch)], 1)
    IN  {p \o nan : p \in TieOrders(num)}

\* pd.DataFrame([]) has no columns, so df.groupby(['inch','line','month'])
\* raises KeyError('inch').
process_data_raises(data) == data = <<>>

KeyErrorInch == "'inch'"

\* The frames process_data(data) can return for a non-empty data.
process_data(data) ==
    LET pivot_df == pivot_table(result_df(data))
    IN  {[columns |-> pivot_df.columns, rows |-> s] :
            s \in sort_values(pivot_df.rows)}


\* ------------------------------------------------------------------- state

VARIABLES
    pc,                 \* the step of main() that runs next
    month_type,         \* Python type of the month labels the driver delivers
    conn,               \* "unbound" (no local named conn), "open", "closed"
    close_calls,        \* calls of conn.close() in this pass
    actual_data,        \* rows of the 'actual' query
    predicted_data,     \* rows of the 'predicted' query
    actual_df,          \* process_data(actual_data)
    predicted_df,       \* process_data(predicted_data)
    inch_filter,        \* selection of the '인치 선택' multiselect
    line_filter,        \* selection of the '라인 선택' multiselect
    actual_filtered,
    predicted_filtered,
    chart_data,         \* rows of the long-form chart frame
    displayed,          \* elements sent to the page in this pass, in order
    errors,             \* st.error messages of this pass, in order
    raised,             \* the exception in flight, NoException if none
    failure,            \* the exception this pass raised, if any (history)
    calls,              \* how often each step was entered in this pass
    data,               \* reshaping specification: the argument of process_data
    result,             \* reshaping specification: the frame it returned
    pd_state            \* reshaping specification: "call", "returned", "raised"

mainVars ==
    <<pc, month_type, conn, close_calls, actual_data, predicted_data, actual_df,
      predicted_df, inch_filter, line_filter, actual_filtered,
      predicted_filtered, chart_data, displayed, errors, raised, failure, calls>>

reshapeVars == <<data, result, pd_state>>

vars == <<mainVars, reshapeVars>>

NoFrame == [columns |-> {}, rows |-> <<>>]

NoException == [at |-> "", text |-> ""]

Steps ==
    {"create_connection", "query_actual", "query_predicted", "process_actual",
     "process_predicted", "filter", "actual_table", "predicted_table",
     "build_chart", "plotly_chart"}

\* psycopg2 adapts the date column to datetime.date; the code tests the column
\* labels with isinstance(col, pd.Timestamp). Both label types are modelled.
MonthTypes == {"date", "Timestamp"}

\* The rows a query of a render pass can return.
QueryRecords == {r \in Records : r.nano = "N1" /\ r.production_amount = 1
                                    /\ r.inch # "6inch"}

QueryResults == OrderedSeqs(QueryRecords, MaxQueryRows)

\* f"오류가 발생했습니다: {str(e)}"
ErrorMessage(e) == <<"error occurred: ", e.text>>

\* ------------------------------------------------------------ main: helpers

\* A step of the try block starts: count it.
Enter(step) == calls' = [calls EXCEPT ![step] = @ + 1]

\* The step raises: control goes to the except clause.
Raise(step, text) ==
    /\ raised' = [at |-> step, text |-> text]
    /\ failure' = [at |-> step, text |-> text]
    /\ pc' = "except"

\* df['inch'].unique() / df['line'].unique()
UniqueInch(df) == {r.inch : r \in Range(df.rows)}

UniqueLine(df) == {r.line : r \in Range(df.rows)}

\* Mutant of Filtered: the line condition is left out.
Filtered_inch_only(df, inch_sel, line_sel) ==
    [columns |-> df.columns,
     rows |-> SelectRows(df.rows,
                [r \in Range(df.rows) |-> r.inch \in inch_sel], 1)]

\* df[df['inch'].isin(inch_sel) & df['line'].isin(line_sel)]
Filtered(df, inch_sel, line_sel) ==
    [columns |-> df.columns,
     rows |-> SelectRows(df.rows,
                [r \in Range(df.rows) |->
                    r.inch \in inch_sel /\ r.line \in line_sel], 1)]

\* The month labels of a frame, in column order.
MonthColumns(df) == SortSet(df.columns, [m \in df.columns |-> m])

\* [col for col in actual_filtered.columns if isinstance(col, pd.Timestamp)]:
\* 'inch', 'line', 'nano' are str; a month label passes only if the driver
\* delivered pd.Timestamp values.
numeric_columns(df) ==
    IF month_type = "Timestamp" THEN MonthColumns(df) ELSE <<>>

RECURSIVE SumAmounts(_, _, _)
SumAmounts(rows, col, i) ==
    IF i > Len(rows) THEN 0
    ELSE (IF col \in DOMAIN rows[i].amounts THEN rows[i].amounts[col] ELSE 0)
         + SumAmounts(rows, col, i + 1)

\* df[col].mean(): NaN values are skipped; the mean is total / count, and NaN
\* when count = 0.
Mean(df, col) ==
    [total |-> SumAmounts(df.rows, col, 1),
     count |-> Cardinality({i \in 1..Len(df.rows) :
                                col \in DOMAIN df.rows[i].amounts})]

\* The rows of pd.DataFrame({'월': ..., '구분': ..., '평균 생산량': ...}).
ChartFrame(cols, af, pf) ==
    [i \in 1..(2 * Len(cols)) |->
        IF i <= Len(cols)
        THEN [month |-> cols[i], label |-> "actual", mean |-> Mean(af, cols[i])]
        ELSE [month |-> cols[i - Len(cols)], label |-> "predicted",
              mean |-> Mean(pf, cols[i - Len(cols)])]]


\* ------------------------------------------------ main: one render pass

\* The locals of a pass before the try block runs.
FreshPass ==
    /\ pc = "create_connection"
    /\ conn = "unbound"
    /\ close_calls = 0
    /\ actual_data = <<>>
    /\ predicted_data = <<>>
    /\ actual_df = NoFrame
    /\ predicted_df = NoFrame
    /\ inch_filter = {}
    /\ line_filter = {}
    /\ actual_filtered = NoFrame
    /\ predicted_filtered = NoFrame
    /\ chart_data = <<>>
    /\ displayed = <<>>
    /\ errors = <<>>
    /\ raised = NoException
    /\ failure = NoException
    /\ calls = [s \in Steps |-> 0]

ReshapeIdle == data = <<>> /\ result = NoFrame /\ pd_state = "idle"

Init ==
    /\ FreshPass
    /\ month_type \in MonthTypes
    /\ ReshapeIdle

\* conn = create_connection()
CreateConnection ==
    /\ pc = "create_connection"
    /\ Enter("create_connection")
    /\ \/ /\ conn' = "open"
          /\ pc' = "query_actual"
          /\ UNCHANGED <<raised, failure>>
       \/ /\ Raise("create_connection", "OperationalError")
          /\ UNCHANGED conn
    /\ UNCHANGED <<month_type, close_calls, actual_data, predicted_data,
                   actual_df, predicted_df, inch_filter, line_filter,
                   actual_filtered, predicted_filtered, chart_data, displayed,
                   errors, reshapeVars>>

\* actual_data = get_production_data(conn, start_date, end_date, 'actual')
QueryActual ==
    /\ pc = "query_actual"
    /\ Enter("query_actual")
    /\ \/ /\ \E rows \in QueryResults : actual_data' = rows
          /\ pc' = "query_predicted"
          /\ UNCHANGED <<raised, failure>>
       \/ /\ Raise("query_actual", "DatabaseError")
          /\ UNCHANGED actual_data
    /\ UNCHANGED <<month_type, conn, close_calls, predicted_data, actual_df,
                   predicted_df, inch_filter, line_filter, actual_filtered,
                   predicted_filtered, chart_data, displayed, errors,
                   reshapeVars>>

\* predicted_data = get_production_data(conn, start_date, end_date, 'predicted')
QueryPredicted ==
    /\ pc = "query_predicted"
    /\ Enter("query_predicted")
    /\ \/ /\ \E rows \in QueryResults : predicted_data' = rows
          /\ pc' = "process_actual"
          /\ UNCHANGED <<raised, failure>>
       \/ /\ Raise("query_predicted", "DatabaseError")
          /\ UNCHANGED predicted_data
    /\ UNCHANGED <<month_type, conn, close_calls, actual_data, actual_df,
                   predicted_df, inch_filter, line_filter, actual_filtered,
                   predicted_filtered, chart_data, displayed, errors,
                   reshapeVars>>

\* actual_df = process_data(actual_data)
ProcessActual ==
    /\ pc = "process_actual"
    /\ Enter("process_actual")
    /\ \/ /\ ~process_data_raises(actual_data)
          /\ \E df \in process_data(actual_data) : actual_df' = df
          /\ pc' = "process_predicted"
          /\ UNCHANGED <<raised, failure>>
       \/ /\ process_data_raises(actual_data)
          /\ Raise("process_actual", KeyErrorInch)
          /\ UNCHANGED actual_df
    /\ UNCHANGED <<month_type, conn, close_calls, actual_data, predicted_data,
                   predicted_df, inch_filter, line_filter, actual_filtered,
                   predicted_filtered, chart_data, displayed, errors,
                   reshapeVars>>

\* predicted_df = process_data(predicted_data)
ProcessPredicted ==
    /\ pc = "process_predicted"
    /\ Enter("process_predicted")
    /\ \/ /\ ~process_data_raises(predicted_data)
          /\ \E df \in process_data(predicted_data) : predicted_df' = df
          /\ pc' = "filter"
          /\ UNCHANGED <<raised, failure>>
       \/ /\ process_data_raises(predicted_data)
          /\ Raise("process_predicted", KeyErrorInch)
          /\ UNCHANGED predicted_df
    /\ UNCHANGED <<month_type, conn, close_calls, actual_data, predicted_data,
                   actual_df, inch_filter, line_filter, actual_filtered,
                   predicted_filtered, chart_data, displayed, errors,
                   reshapeVars>>

\* The sidebar: both multiselects offer the values of actual_df and return the
\* user's selection among them; then both frames are filtered with it.
Filter ==
    /\ pc = "filter"
    /\ Enter("filter")
    /\ \/ /\ \E inch_sel \in SUBSET UniqueInch(actual_df),
                line_sel \in SUBSET UniqueLine(actual_df) :
                /\ inch_filter' = inch_sel
                /\ line_filter' = line_sel
                /\ actual_filtered' = Filtered(actual_df, inch_sel, line_sel)
                /\ predicted_filtered' =
                        Filtered(predicted_df, inch_sel, line_sel)
          /\ displayed' = Append(displayed, "sidebar")
          /\ pc' = "actual_table"
          /\ UNCHANGED <<raised, failure>>
       \/ /\ Raise("filter", "StreamlitAPIException")
          /\ UNCHANGED <<inch_filter, line_filter, actual_filtered,
                         predicted_filtered, displayed>>
    /\ UNCHANGED <<month_type, conn, close_calls, actual_data, predicted_data,
                   actual_df, predicted_df, chart_data, errors, reshapeVars>>

\* st.header("실제 생산량"); st.dataframe(actual_filtered.style.format(...))
ShowActualTable ==
    /\ pc = "actual_table"
    /\ Enter("actual_table")
    /\ \/ /\ displayed' = displayed \o <<"actual_header", "actual_table">>
          /\ pc' = "predicted_table"
          /\ UNCHANGED <<raised, failure>>
       \/ /\ displayed' = Append(displayed, "actual_header")
          /\ Raise("actual_table", "StreamlitAPIException")
    /\ UNCHANGED <<month_type, conn, close_calls, actual_data, predicted_data,
                   actual_df, predicted_df, inch_filter, line_filter,
                   actual_filtered, predicted_filtered, chart_data, errors,
                   reshapeVars>>

\* st.header("예측 생산량"); st.dataframe(predicted_filtered.style.format(...))
ShowPredictedTable ==
    /\ pc = "predicted_table"
    /\ Enter("predicted_table")
    /\ \/ /\ displayed' = displayed \o <<"predicted_header", "predicted_table">>
          /\ pc' = "build_chart"
          /\ UNCHANGED <<raised, failure>>
       \/ /\ displayed' = Append(displayed, "predicted_header")
          /\ Raise("predicted_table", "StreamlitAPIException")
    /\ UNCHANGED <<month_type, conn, close_calls, actual_data, predicted_data,
                   actual_df, predicted_df, inch_filter, line_filter,
                   actual_filtered, predicted_filtered, chart_data, errors,
                   reshapeVars>>

\* predicted_filtered[col] raises KeyError for a column of actual_filtered that
\* predicted_filtered does not have.
MissingColumns ==
    {m \in Range(numeric_columns(actual_filtered)) :
        m \notin predicted_filtered.columns}

\* The chart frame, st.header("생산량 추이 비교"), px.line, fig.update_layout.
BuildChart ==
    /\ pc = "build_chart"
    /\ Enter("build_chart")
    /\ \/ /\ MissingColumns = {}
          /\ chart_data' = ChartFrame(numeric_columns(actual_filtered),
                                      actual_filtered, predicted_filtered)
          /\ displayed' = Append(displayed, "chart_header")
          /\ pc' = "plotly_chart"
          /\ UNCHANGED <<raised, failure>>
       \/ /\ MissingColumns = {}
          /\ chart_data' = ChartFrame(numeric_columns(actual_filtered),
                                      actual_filtered, predicted_filtered)
          /\ displayed' = Append(displayed, "chart_header")
          /\ Raise("build_chart", "ValueError")
       \/ /\ MissingColumns # {}
          /\ Raise("build_chart", "KeyError: month")
          /\ UNCHANGED <<chart_data, displayed>>
    /\ UNCHANGED <<month_type, conn, close_calls, actual_data, predicted_data,
                   actual_df, predicted_df, inch_filter, line_filter,
                   actual_filtered, predicted_filtered, errors, reshapeVars>>

\* st.plotly_chart(fig, use_container_width=True)
PlotlyChart ==
    /\ pc = "plotly_chart"
    /\ Enter("plotly_chart")
    /\ \/ /\ displayed' = Append(displayed, "chart")
          /\ pc' = "finally"
          /\ UNCHANGED <<raised, failure>>
       \/ /\ Raise("plotly_chart", "StreamlitAPIException")
          /\ UNCHANGED displayed
    /\ UNCHANGED <<month_type, conn, close_calls, actual_data, predicted_data,
                   actual_df, predicted_df, inch_filter, line_filter,
                   actual_filtered, predicted_filtered, chart_data, errors,
                   reshapeVars>>

\* Mutant of Caught: the clause catches KeyError only.
Caught_KeyError_only(e) == e.text = "'inch'"

\* The exceptions  except Exception as e  catches: every exception modelled.
Caught(e) == TRUE

\* except Exception as e: st.error(f"오류가 발생했습니다: {str(e)}")
Except ==
    /\ pc = "except"
    /\ IF Caught(raised)
          THEN /\ errors' = Append(errors, ErrorMessage(raised))
               /\ raised' = NoException
               /\ pc' = "finally"
          ELSE /\ pc' = "finally"
               /\ UNCHANGED <<errors, raised>>
    /\ UNCHANGED <<month_type, conn, close_calls, actual_data, predicted_data,
                   actual_df, predicted_df, inch_filter, line_filter,
                   actual_filtered, predicted_filtered, chart_data, displayed,
                   failure, calls, reshapeVars>>

\* Mutant of ConnInLocals: the connection is closed on the success path only.
ConnInLocals_on_success == conn # "unbound" /\ errors = <<>>

\* 'conn' in locals()
ConnInLocals == conn # "unbound"

\* finally: if 'conn' in locals(): conn.close()
Finally ==
    /\ pc = "finally"
    /\ IF ConnInLocals
          THEN conn' = "closed" /\ close_calls' = close_calls + 1
          ELSE UNCHANGED <<conn, close_calls>>
    /\ pc' = "done"
    /\ UNCHANGED <<month_type, actual_data, predicted_data, actual_df,
                   predicted_df, inch_filter, line_filter, actual_filtered,
                   predicted_filtered, chart_data, displayed, errors, raised,
                   failure, calls, reshapeVars>>

\* A widget changes: Streamlit runs the script again, from scratch.
Rerun ==
    /\ pc = "done"
    /\ raised = NoException
    /\ pc' = "create_connection"
    /\ conn' = "unbound"
    /\ close_calls' = 0
    /\ actual_data' = <<>>
    /\ predicted_data' = <<>>
    /\ actual_df' = NoFrame
    /\ predicted_df' = NoFrame
    /\ inch_filter' = {}
    /\ line_filter' = {}
    /\ actual_filtered' = NoFrame
    /\ predicted_filtered' = NoFrame
    /\ chart_data' = <<>>
    /\ displayed' = <<>>
    /\ errors' = <<>>
    /\ failure' = NoException
    /\ calls' = [s \in Steps |-> 0]
    /\ UNCHANGED <<raised, month_type, reshapeVars>>

Next ==
    \/ CreateConnection
    \/ QueryActual
    \/ QueryPredicted
    \/ ProcessActual
    \/ ProcessPredicted
    \/ Filter
    \/ ShowActualTable
    \/ ShowPredictedTable
    \/ BuildChart
    \/ PlotlyChart
    \/ Except
    \/ Finally
    \/ Rerun

Spec == Init /\ [][Next]_vars

\* ------------------------------------- the reshaping routine on its own

\* The arguments process_data is applied to.
Inputs == OrderedSeqs(Records, MaxRows)

InitReshape ==
    /\ FreshPass
    /\ month_type = "date"
    /\ data \in Inputs
    /\ result = NoFrame
    /\ pd_state = "call"

\* pivot_df = process_data(data)
ProcessData ==
    /\ pd_state = "call"
    /\ \/ /\ ~process_data_raises(data)
          /\ \E df \in process_data(data) : result' = df
          /\ pd_state' = "returned"
       \/ /\ process_data_raises(data)
          /\ pd_state' = "raised"
          /\ UNCHANGED result
    /\ UNCHANGED <<data, mainVars>>

NextReshape == ProcessData

SpecReshape == InitReshape /\ [][NextReshape]_vars


\* ------------------------------------------------------------------ claims

Shown(what) == what \in Range(displayed)

\* The step was entered in this pass and did not raise.
Completed(step) == calls[step] = 1 /\ failure.at # step

\* The pass raised an exception of a collaborator (database, Streamlit,
\* plotly), as opposed to one the data itself causes.
ExternalFailure ==
    failure.text \in
        {"OperationalError", "DatabaseError", "StreamlitAPIException",
         "ValueError"}

\* C1: when a render pass ends, the connection create_connection() returned
\* has been closed, exactly once, whatever step failed; when
\* create_connection() itself failed there is no connection and close was
\* never called.
C1_ConnectionReleased ==
    /\ conn = "unbound" => close_calls = 0
    /\ pc = "done" =>
          IF Completed("create_connection")
             THEN conn = "closed" /\ close_calls = 1
             ELSE conn = "unbound" /\ close_calls = 0

\* C1 witness: a pass that failed while building the chart has ended with the
\* connection closed.
C1_Witness ==
    /\ pc = "done"
    /\ failure.at = "build_chart"
    /\ conn = "closed"

\* C2: a failure of any step is caught by the except clause: when the pass
\* ends no exception is in flight, exactly one error message is on the page
\* and it carries the text of the exception; no step runs twice in a pass.
C2_FailureCaughtOnce ==
    /\ \A s \in Steps : calls[s] <= 1
    /\ pc = "done" =>
          /\ raised = NoException
          /\ failure # NoException => errors = <<ErrorMessage(failure)>>
          /\ failure = NoException => errors = <<>>

\* C2 witness: a pass whose second query failed has ended with the one message.
C2_Witness ==
    /\ pc = "done"
    /\ failure.at = "query_predicted"
    /\ errors = <<<<"error occurred: ", "DatabaseError">>>>

\* C3: a pass in which both queries return zero rows (and no collaborator
\* fails) ends with both tables and the chart on the page and no error message.
C3_EmptyRangeRenders ==
    ( /\ pc = "done"
      /\ Completed("query_actual")
      /\ Completed("query_predicted")
      /\ actual_data = <<>>
      /\ predicted_data = <<>>
      /\ ~ExternalFailure )
    => /\ errors = <<>>
       /\ Shown("actual_table")
       /\ Shown("predicted_table")
       /\ Shown("chart")

\* The (inch, line, nano) keys of the aggregated collection of an input: the
\* keys of its rows and, for each (inch, line) of a row, the '전체' key.
AggregatedKeys(d) ==
    {<<r.inch, r.line, r.nano>> : r \in Range(d)}
        \cup {<<r.inch, r.line, "ALL">> : r \in Range(d)}

RowKey(row) == <<row.inch, row.line, row.nano>>

\* C4: for a non-empty input process_data returns, and the frame has exactly
\* one row for each key of the aggregated collection and no other row.
C4_OneRowPerKey ==
    /\ (pd_state = "raised") => data = <<>>
    /\ (pd_state = "returned") =>
          /\ \A k \in AggregatedKeys(data) :
                Cardinality({i \in 1..Len(result.rows) :
                                RowKey(result.rows[i]) = k}) = 1
          /\ \A i \in 1..Len(result.rows) :
                RowKey(result.rows[i]) \in AggregatedKeys(data)

\* C4 witness: a three-row input over two lines has been reshaped (two '전체'
\* rows from two copies each, and node rows).
C4_Witness ==
    /\ pd_state = "returned"
    /\ Len(data) = 3
    /\ {r.line : r \in Range(data)} = {"L1", "L2"}
    /\ Len(result.rows) >= 4

\* Each (inch, line, nano) has at most one record per month.
OncePerMonth(d) ==
    \A i, j \in 1..Len(d) :
        (/\ d[i].inch = d[j].inch /\ d[i].line = d[j].line
         /\ d[i].nano = d[j].nano /\ d[i].month = d[j].month) => i = j

\* The sum of production_amount over a set of records.
RECURSIVE SetSum(_)
SetSum(S) ==
    IF S = {} THEN 0
    ELSE LET r == CHOOSE r \in S : TRUE
         IN  r.production_amount + SetSum(S \ {r})

\* C5: when each node has at most one record per month, a '전체' row holds
\* for a month the sum of the input amounts of that (inch, line, month), and
\* holds nothing for a month without input for that (inch, line).
C5_AllRowIsSum ==
    (pd_state = "returned" /\ OncePerMonth(data)) =>
        \A i \in 1..Len(result.rows) :
            LET row == result.rows[i]
                src(m) == {r \in Range(data) :
                             /\ r.inch = row.inch /\ r.line = row.line
                             /\ r.month = m}
            IN  row.nano = "ALL" =>
                    /\ DOMAIN row.amounts = {m \in Months : src(m) # {}}
                    /\ \A m \in DOMAIN row.amounts :
                          row.amounts[m] = SetSum(src(m))

\* C5 witness: a '전체' row holds 3, the sum of two nodes' amounts 1 and 2.
C5_Witness ==
    /\ pd_state = "returned"
    /\ OncePerMonth(data)
    /\ \E i \in 1..Len(result.rows) :
          /\ result.rows[i].nano = "ALL"
          /\ \E m \in DOMAIN result.rows[i].amounts :
                result.rows[i].amounts[m] = 3

\* C6: for inputs of 12-inch and 8-inch records only, every 12-inch row comes
\* before every 8-inch row and, within a size, every '전체' row before every
\* node row.
C6_SortedBySizeThenAll ==
    (pd_state = "returned" /\ \A r \in Range(data) : r.inch \in Inches) =>
        \A i, j \in 1..Len(result.rows) :
            LET a == result.rows[i]
                b == result.rows[j]
            IN  /\ (a.inch = "12inch" /\ b.inch = "8inch") => i < j
                /\ (a.inch = b.inch /\ a.nano = "ALL" /\ b.nano # "ALL")
                        => i < j

\* C6 witness: a frame with rows of both sizes, '전체' and node rows.
C6_Witness ==
    /\ pd_state = "returned"
    /\ \A r \in Range(data) : r.inch \in Inches
    /\ {r.inch : r \in Range(result.rows)} = Inches
    /\ Len(result.rows) >= 5

\* The stable sort of a sequence of pivot rows by sort_order, NaN last.
RECURSIVE StableRanked(_, _)
StableRanked(rows, ks) ==
    IF ks = {} THEN <<>>
    ELSE LET lo == CHOOSE k \in ks : \A x \in ks : k <= x
         IN  SelectRows(rows,
                [r \in Range(rows) |->
                    InchMapped(r.inch) /\ sort_order(r) = lo], 1)
             \o StableRanked(rows, ks \ {lo})

StableSort(rows) ==
    StableRanked(rows,
        {sort_order(r) : r \in {x \in Range(rows) : InchMapped(x.inch)}})
    \o SelectRows(rows, [r \in Range(rows) |-> ~InchMapped(r.inch)], 1)

\* C7: the sort is stable: the returned rows are the pivot's rows in
\* sort_order with rows of equal sort_order in the pivot's order (and sorting
\* them again leaves them as they are).
C7_SortStable ==
    (pd_state = "returned") =>
        /\ result.rows = StableSort(pivot_table(result_df(data)).rows)
        /\ sort_values(result.rows) = {result.rows}

\* C8: a pass that ends with the error message has displayed neither table
\* nor the chart.
C8_NoPartialDisplay ==
    (pc = "done" /\ errors # <<>>) =>
        /\ ~Shown("actual_table")
        /\ ~Shown("predicted_table")
        /\ ~Shown("chart")

\* The months for which some row of a frame has a value.
MonthsOf(df) == UNION {DOMAIN r.amounts : r \in Range(df.rows)}

\* C9: once the filtered frames exist (and no collaborator fails) the pass
\* shows a chart whose frame has, for each series and each month of that
\* series, exactly one row, holding the mean over the series' filtered rows.
C9_ChartMeans ==
    (pc = "done" /\ Completed("filter") /\ ~ExternalFailure) =>
        /\ Shown("chart")
        /\ \A m \in MonthsOf(actual_filtered) :
              Cardinality({i \in 1..Len(chart_data) :
                  chart_data[i] = [month |-> m, label |-> "actual",
                                   mean |-> Mean(actual_filtered, m)]}) = 1
        /\ \A m \in MonthsOf(predicted_filtered) :
              Cardinality({i \in 1..Len(chart_data) :
                  chart_data[i] = [month |-> m, label |-> "predicted",
                                   mean |-> Mean(predicted_filtered, m)]}) = 1

\* C10: the selections are among the values of the 'actual' pivot; every row
\* of a displayed table has its inch and its line in the selection, so a
\* displayed 'predicted' row has an inch and a line of the 'actual' pivot.
C10_FilterFromActual ==
    /\ inch_filter \subseteq UniqueInch(actual_df)
    /\ line_filter \subseteq UniqueLine(actual_df)
    /\ Shown("actual_table") =>
          \A r \in Range(actual_filtered.rows) :
              r.inch \in inch_filter /\ r.line \in line_filter
    /\ Shown("predicted_table") =>
          \A r \in Range(predicted_filtered.rows) :
              /\ r.inch \in inch_filter /\ r.line \in line_filter
              /\ r.inch \in UniqueInch(actual_df)
              /\ r.line \in UniqueLine(actual_df)

\* C10 witness: the 'predicted' table is displayed under the default
\* selection (every value of the 'actual' pivot) and leaves out a 'predicted'
\* row whose inch the 'actual' pivot does not have.
C10_Witness ==
    /\ Shown("predicted_table")
    /\ inch_filter = UniqueInch(actual_df)
    /\ line_filter = UniqueLine(actual_df)
    /\ \E r \in Range(predicted_df.rows) :
          /\ r.inch \notin UniqueInch(actual_df)
          /\ r \notin Range(predicted_filtered.rows)

=============================================================================
